---- MODULE Spec2Model ----
(***************************************************************************)
(* Model of yival/experiment/utils.py: the capability registration         *)
(* helpers, the combination runner (run_single_input), the metric          *)
(* aggregator (calculate_metrics, calculate_average_token,                 *)
(* calculate_average_latency) and the experiment assembler                 *)
(* (generate_experiment).                                                  *)
(*                                                                         *)
(* A Python dict is a sequence of <<key, value>> pairs with distinct keys, *)
(* in insertion order.  A Python list is a sequence.  An object whose      *)
(* identity matters (an ExperimentResult) carries an id field.             *)
(***************************************************************************)
EXTENDS Integers, Sequences, FiniteSets, TLC

VARIABLES
    readers,            \* BaseReader's registry: name -> entry
    evaluators,         \* BaseEvaluator's registry: name -> entry
    wrappers,           \* the variation-wrapper registry: name -> entry
    lastCall,           \* the last registration call and how it ended
    ncalls,             \* number of registration calls made
    pc,                 \* position of run_single_input / generate_experiment
    d,                  \* run_single_input: the input record
    all_combinations,   \* run_single_input: the ordered list of combinations
    ci,                 \* index of the combination of the outer loop
    ii,                 \* index of the item of the inner loop
    state,              \* ExperimentState: variation name -> current value
    results,            \* the list of ExperimentResult
    calls,              \* log of the invocations of the user function
    individualCalls,    \* log of Evaluator.evaluate_individual_result calls
    experiment,         \* the Experiment returned by generate_experiment
    groupCalls,         \* log of Evaluator.evaluate_group_result calls
    metrics,            \* value returned by calculate_metrics(results)
    avgToken,           \* value returned by calculate_average_token(results)
    avgLatency          \* value returned by calculate_average_latency(results)

registryVars == <<readers, evaluators, wrappers, lastCall, ncalls>>
runVars == <<pc, d, all_combinations, ci, ii, state, results, calls, individualCalls>>
assembleVars == <<experiment, groupCalls>>
aggregateVars == <<metrics, avgToken, avgLatency>>
vars == <<readers, evaluators, wrappers, lastCall, ncalls, pc, d, all_combinations, ci, ii, state, results, calls, individualCalls, experiment, groupCalls, metrics, avgToken, avgLatency>>

(***************************************************************************)
(* Bounds                                                                  *)
(***************************************************************************)
MaxDecls == 2
MaxCalls == 2
MaxCombos == 2
MaxResults == 3
MaxBucket == 3

(***************************************************************************)
(* Python dict and list primitives                                         *)
(***************************************************************************)
EmptyDict == <<>>

Keys(dct) == {dct[i][1] : i \in DOMAIN dct}

HasKey(dct, k) == \E i \in DOMAIN dct : dct[i][1] = k

Get(dct, k) == dct[CHOOSE i \in DOMAIN dct : dct[i][1] = k][2]

\* dct[k] = v: an existing key keeps its position, a new key goes last
Put(dct, k, v) ==
    IF HasKey(dct, k)
    THEN [i \in DOMAIN dct |-> IF dct[i][1] = k THEN <<k, v>> ELSE dct[i]]
    ELSE Append(dct, <<k, v>>)

\* variant: an append under a key already present starts the list again
DictAppendOverwrite(dct, k, item) == Put(dct, k, <<item>>)

\* variant: a key seen for the first time is placed before the others
DictAppendFront(dct, k, item) ==
    IF HasKey(dct, k)
    THEN Put(dct, k, Append(Get(dct, k), item))
    ELSE << <<k, <<item>> >> >> \o dct

\* defaultdict(list): dct[k].append(item)
DictAppend(dct, k, item) ==
    IF HasKey(dct, k)
    THEN Put(dct, k, Append(Get(dct, k), item))
    ELSE Append(dct, <<k, <<item>> >>)

\* the sequences of length 0..n over S
BoundedSeq(S, n) == UNION {[1..k -> S] : k \in 0..n}

\* the dicts of at most n items with keys in K and values in V
BoundedDict(K, V, n) ==
    {s \in BoundedSeq(K \X V, n) : \A i, j \in DOMAIN s : i # j => s[i][1] # s[j][1]}

(***************************************************************************)
(* Capability registration                                                  *)
(***************************************************************************)
\* A reference "a.b.C" is the sequence of its dot-separated components.
PathClsA == <<"pkg", "mod", "ClsA">>
PathClsB == <<"pkg", "ClsB">>
PathCfgA == <<"pkg", "mod", "CfgA">>
PathNoAttr == <<"pkg", "mod", "Missing">>
PathNoModule == <<"nopkg", "ClsA">>
PathNoDot == <<"ClsA">>

\* what importlib finds: module name -> attribute name -> object
SysModules ==
    (<<"pkg", "mod">> :> ("ClsA" :> "class ClsA" @@ "CfgA" :> "class CfgA"))
    @@ (<<"pkg">> :> ("ClsB" :> "class ClsB"))

ResolutionError == "ResolutionError"
None == "None"

\* module_name, class_name = path.rsplit(".", 1)
\* getattr(import_module(module_name), class_name)
Resolve(path) ==
    IF Len(path) < 2 THEN ResolutionError
    ELSE LET module_name == SubSeq(path, 1, Len(path) - 1)
             class_name == path[Len(path)]
         IN  IF module_name \notin DOMAIN SysModules THEN ResolutionError
             ELSE IF class_name \notin DOMAIN SysModules[module_name] THEN ResolutionError
             ELSE SysModules[module_name][class_name]

\* BaseReader.register_reader / BaseEvaluator.register_evaluator:
\* store the pair under the name, the last registration wins
RegisterEntry(registry, name, cls, config_cls) ==
    Put(registry, name, [cls |-> cls, config_cls |-> config_cls])

NotRegistered == [cls |-> None, config_cls |-> None]

Lookup(registry, name) ==
    IF HasKey(registry, name) THEN Get(registry, name) ELSE NotRegistered

\* variant: the class is registered as soon as it is resolved, before the
\* config class is looked at
RegisterOneEager(registry, name, details) ==
    LET cls == Resolve(details["class"])
    IN  IF cls = ResolutionError
        THEN [registry |-> registry, raised |-> TRUE]
        ELSE IF "config_cls" \in DOMAIN details
             THEN LET config_cls == Resolve(details["config_cls"])
                  IN  IF config_cls = ResolutionError
                      THEN [registry |-> RegisterEntry(registry, name, cls, None),
                            raised |-> TRUE]
                      ELSE [registry |-> RegisterEntry(registry, name, cls, config_cls),
                            raised |-> FALSE]
             ELSE [registry |-> RegisterEntry(registry, name, cls, None),
                   raised |-> FALSE]

\* the body of the loop "for name, details in custom.items()" for one item;
\* the exception of a failing resolution ends the call
RegisterOne(registry, name, details) ==
    LET cls == Resolve(details["class"])
    IN  IF cls = ResolutionError
        THEN [registry |-> registry, raised |-> TRUE]
        ELSE IF "config_cls" \in DOMAIN details
             THEN LET config_cls == Resolve(details["config_cls"])
                  IN  IF config_cls = ResolutionError
                      THEN [registry |-> registry, raised |-> TRUE]
                      ELSE [registry |-> RegisterEntry(registry, name, cls, config_cls),
                            raised |-> FALSE]
             ELSE [registry |-> RegisterEntry(registry, name, cls, None),
                   raised |-> FALSE]

RECURSIVE RegisterItems(_, _, _)
RegisterItems(registry, custom, i) ==
    IF i > Len(custom)
    THEN [registry |-> registry, raised |-> FALSE, failed |-> 0]
    ELSE LET step == RegisterOne(registry, custom[i][1], custom[i][2])
         IN  IF step.raised
             THEN [registry |-> step.registry, raised |-> TRUE, failed |-> i]
             ELSE RegisterItems(step.registry, custom, i + 1)

Names == {"custom", "other"}

DetailsPool ==
    { ("class" :> PathClsA),
      ("class" :> PathClsA @@ "config_cls" :> PathCfgA),
      ("class" :> PathClsB),
      ("class" :> PathClsB @@ "config_cls" :> PathNoAttr),
      ("class" :> PathNoAttr),
      ("class" :> PathNoModule @@ "config_cls" :> PathCfgA),
      ("class" :> PathNoDot) }

Declarations == BoundedDict(Names, DetailsPool, MaxDecls)

\* Each function ends by importing the built-in capability of its kind
\* (CSVReader, StringExpectedResultEvaluator, StringWrapper); that import
\* stores nothing under a name of Names and is reached only when no
\* resolution failed.
RegisterCustomReaders(custom_readers) ==
    /\ ncalls < MaxCalls
    /\ LET out == RegisterItems(readers, custom_readers, 1)
       IN  /\ readers' = out.registry
           /\ lastCall' = [op |-> "readers", custom |-> custom_readers,
                           raised |-> out.raised, failed |-> out.failed]
    /\ ncalls' = ncalls + 1
    /\ UNCHANGED <<evaluators, wrappers>>
    /\ UNCHANGED <<runVars, assembleVars, aggregateVars>>

RegisterCustomEvaluators(custom_evaulators) ==
    /\ ncalls < MaxCalls
    /\ LET out == RegisterItems(evaluators, custom_evaulators, 1)
       IN  /\ evaluators' = out.registry
           /\ lastCall' = [op |-> "evaluators", custom |-> custom_evaulators,
                           raised |-> out.raised, failed |-> out.failed]
    /\ ncalls' = ncalls + 1
    /\ UNCHANGED <<readers, wrappers>>
    /\ UNCHANGED <<runVars, assembleVars, aggregateVars>>

\* the loop of register_custom_wrappers calls BaseEvaluator.register_evaluator
RegisterCustomWrappers(custom_wrappers) ==
    /\ ncalls < MaxCalls
    /\ LET out == RegisterItems(evaluators, custom_wrappers, 1)
       IN  /\ evaluators' = out.registry
           /\ lastCall' = [op |-> "wrappers", custom |-> custom_wrappers,
                           raised |-> out.raised, failed |-> out.failed]
    /\ ncalls' = ncalls + 1
    /\ UNCHANGED <<readers, wrappers>>
    /\ UNCHANGED <<runVars, assembleVars, aggregateVars>>

NoCall == [op |-> "none", custom |-> <<>>, raised |-> FALSE, failed |-> 0]

RegisterReadersStep == \E custom \in Declarations : RegisterCustomReaders(custom)

RegisterEvaluatorsStep == \E custom \in Declarations : RegisterCustomEvaluators(custom)

RegisterWrappersStep == \E custom \in Declarations : RegisterCustomWrappers(custom)

(***************************************************************************)
(* str() of the grouping keys                                              *)
(***************************************************************************)
\* repr of a str -> str dict: {'k1': 'v1', 'k2': 'v2'}
RECURSIVE StrItems(_, _)
StrItems(dct, i) ==
    IF i > Len(dct) THEN ""
    ELSE (IF i > 1 THEN ", " ELSE "")
         \o "'" \o dct[i][1] \o "': '" \o dct[i][2] \o "'"
         \o StrItems(dct, i + 1)

StrDict(dct) == "{" \o StrItems(dct, 1) \o "}"

\* repr of the InputData dataclass
StrInputData(input_data) == "InputData(content=" \o StrDict(input_data.content) \o ")"

(***************************************************************************)
(* Metric aggregator                                                       *)
(***************************************************************************)
AVERAGE == "AVERAGE"

RECURSIVE GCD(_, _)
GCD(a, b) == IF b = 0 THEN a ELSE GCD(b, a % b)

\* a / b on non-negative numbers, kept exact as a reduced fraction;
\* a zero divisor raises ZeroDivisionError
ZeroDivisionError == [num |-> 0, den |-> 0]

Divide(a, b) ==
    IF b = 0 THEN ZeroDivisionError
    ELSE LET g == GCD(a, b) IN [num |-> a \div g, den |-> b \div g]

Zero == [num |-> 0, den |-> 1]

RECURSIVE Sum(_)
Sum(s) == IF s = <<>> THEN 0 ELSE Head(s) + Sum(Tail(s))

\* sum(eo.result for r in results if r.evaluator_outputs
\*     for eo in r.evaluator_outputs if eo.name == name)
Total(rs, name) ==
    LET Matches(eo) == eo.name = name
        OfResult(r) ==
            IF r.evaluator_outputs # <<>>
            THEN LET sel == SelectSeq(r.evaluator_outputs, Matches)
                 IN  Sum([j \in DOMAIN sel |-> sel[j].result])
            ELSE 0
    IN  Sum([i \in DOMAIN rs |-> OfResult(rs[i])])

Metric(name, value) == [name |-> name, value |-> value]

\* variant: the divisor counts only the results that carry the output
AverageValueOverPresent(rs, name) ==
    LET Carries(r) == \E j \in DOMAIN r.evaluator_outputs : r.evaluator_outputs[j].name = name
    IN  Divide(Total(rs, name), Len(SelectSeq(rs, Carries)))

\* total / len(results)
AverageValue(rs, name) == Divide(Total(rs, name), Len(rs))

\* for metric_calculator in evaluator_output.metric_calculators
RECURSIVE MetricsOfCalculators(_, _, _, _)
MetricsOfCalculators(rs, evaluator_output, k, res) ==
    IF k > Len(evaluator_output.metric_calculators) THEN res
    ELSE IF evaluator_output.metric_calculators[k]["method"] = AVERAGE
         THEN LET average_value == AverageValue(rs, evaluator_output.name)
              IN  MetricsOfCalculators(rs, evaluator_output, k + 1,
                      DictAppend(res, evaluator_output.name, Metric(AVERAGE, average_value)))
         ELSE MetricsOfCalculators(rs, evaluator_output, k + 1, res)

\* for evaluator_output in reference_evaluator_outputs
RECURSIVE MetricsOfOutputs(_, _, _, _)
MetricsOfOutputs(rs, reference_evaluator_outputs, j, res) ==
    IF j > Len(reference_evaluator_outputs) THEN res
    ELSE MetricsOfOutputs(rs, reference_evaluator_outputs, j + 1,
             MetricsOfCalculators(rs, reference_evaluator_outputs[j], 1, res))

CalculateMetrics(rs) ==
    IF rs = <<>> THEN EmptyDict
    ELSE LET reference_evaluator_outputs == rs[1].evaluator_outputs
         IN  IF reference_evaluator_outputs # <<>>
             THEN MetricsOfOutputs(rs, reference_evaluator_outputs, 1, EmptyDict)
             ELSE EmptyDict

\* variant: no early return for the empty list
CalculateAverageTokenUnguarded(rs) ==
    Divide(Sum([i \in DOMAIN rs |-> rs[i].token_usage]), Len(rs))

CalculateAverageToken(rs) ==
    IF rs = <<>> THEN Zero
    ELSE Divide(Sum([i \in DOMAIN rs |-> rs[i].token_usage]), Len(rs))

CalculateAverageLatency(rs) ==
    IF rs = <<>> THEN Zero
    ELSE Divide(Sum([i \in DOMAIN rs |-> rs[i].latency]), Len(rs))

(***************************************************************************)
(* Combination runner                                                      *)
(***************************************************************************)
InputX == [content |-> << <<"question", "x">> >>]
InputY == [content |-> << <<"question", "y">> >>]
Inputs == {InputX, InputY}

ComboEmpty == <<>>
ComboA == << <<"p", "v1">> >>
ComboB == << <<"p", "v2">> >>
ComboAB == << <<"p", "v2">>, <<"q", "v1">> >>
ComboPool == {ComboEmpty, ComboA, ComboB, ComboAB}

\* wall-clock seconds between start_time and end_time
Latencies == {1, 2}

\* values of logger.get_current_usage()
TokenUsages == {0, 3}

StaleState == << <<"p", "v0">>, <<"q", "v0">> >>

\* ExperimentState.set_specific_variation: a flat name -> value mapping
SetSpecificVariation(st, name, variation) == Put(st, name, variation)

\* the function under test: it reports its arguments and the variations
\* it finds in the experiment state
CustomFunction(kwargs, st) == StrDict(kwargs) \o " with " \o StrDict(st)

\* Evaluator.evaluate_individual_result
EvaluateIndividualResult(result) ==
    << [name |-> "accuracy", result |-> 1,
        metric_calculators |-> << ("method" :> AVERAGE) >>] >>

\* variant: every result is scored
ScoreAlways(result) == TRUE

\* if result.evaluator_outputs:
ScoreIndividually(result) == result.evaluator_outputs # <<>>

ExperimentResult(id, input_data, combination, raw_output, latency, token_usage, evaluator_outputs) ==
    [id |-> id, input_data |-> input_data, combination |-> combination,
     raw_output |-> raw_output, latency |-> latency, token_usage |-> token_usage,
     evaluator_outputs |-> evaluator_outputs]

\* entry of run_single_input: results = []
RunSingleInput(input, combinations) ==
    /\ pc = "idle"
    /\ pc' = "run"
    /\ d' = input
    /\ all_combinations' = combinations
    /\ ci' = 1
    /\ ii' = 1
    /\ results' = <<>>
    /\ UNCHANGED <<state, calls, individualCalls>>
    /\ UNCHANGED <<registryVars, assembleVars, aggregateVars>>

InCombination == pc = "run" /\ ci <= Len(all_combinations)

InItem == InCombination /\ ii <= Len(all_combinations[ci])

\* one pass of the body of "for name, variation in combo.items()"
\* in which the function under test returns
InvokeAndRecord(latency, tokens_used) ==
    /\ InItem
    /\ LET combo == all_combinations[ci]
           name == combo[ii][1]
           variation == combo[ii][2]
           st == SetSpecificVariation(state, name, variation)
           res == CustomFunction(d.content, st)
           result == ExperimentResult(Len(results) + 1, d, combo, res,
                                      latency, tokens_used, <<>>)
           scored == ScoreIndividually(result)
           final == IF scored
                    THEN [result EXCEPT !.evaluator_outputs =
                              @ \o EvaluateIndividualResult(result)]
                    ELSE result
       IN  /\ state' = st
           /\ calls' = Append(calls, [combo |-> ci, kwargs |-> d.content, state |-> st])
           /\ individualCalls' = IF scored THEN Append(individualCalls, result.id)
                                 ELSE individualCalls
           /\ results' = Append(results, final)
    /\ ii' = ii + 1
    /\ UNCHANGED <<pc, d, all_combinations, ci>>
    /\ UNCHANGED <<registryVars, assembleVars, aggregateVars>>

\* the same pass when the function under test raises: the exception
\* leaves run_single_input
InvokeAndRaise ==
    /\ InItem
    /\ LET combo == all_combinations[ci]
           st == SetSpecificVariation(state, combo[ii][1], combo[ii][2])
       IN  /\ state' = st
           /\ calls' = Append(calls, [combo |-> ci, kwargs |-> d.content, state |-> st])
    /\ pc' = "raised"
    /\ UNCHANGED <<d, all_combinations, ci, ii, results, individualCalls>>
    /\ UNCHANGED <<registryVars, assembleVars, aggregateVars>>

\* combo.items() is exhausted: next pass of "for combo in all_combinations"
NextCombination ==
    /\ InCombination
    /\ ii > Len(all_combinations[ci])
    /\ ci' = ci + 1
    /\ ii' = 1
    /\ UNCHANGED <<pc, d, all_combinations, state, results, calls, individualCalls>>
    /\ UNCHANGED <<registryVars, assembleVars, aggregateVars>>

\* return results
ReturnResults ==
    /\ pc = "run"
    /\ ci > Len(all_combinations)
    /\ pc' = "done"
    /\ UNCHANGED <<d, all_combinations, ci, ii, state, results, calls, individualCalls>>
    /\ UNCHANGED <<registryVars, assembleVars, aggregateVars>>

(***************************************************************************)
(* Experiment assembler                                                    *)
(***************************************************************************)
\* for item in results: buckets[key(item)].append(item)
RECURSIVE GroupItems(_, _, _, _)
GroupItems(keys, items, i, buckets) ==
    IF i > Len(items) THEN buckets
    ELSE GroupItems(keys, items, i + 1, DictAppend(buckets, keys[i], items[i]))

\* Evaluator.evaluate_group_result: one output describing the list it was given
EvaluateGroupResult(experiment_results) ==
    << [name |-> "group", result |-> Len(experiment_results),
        metric_calculators |-> << >>] >>

GroupByInputData(rs) ==
    GroupItems([i \in DOMAIN rs |-> StrInputData(rs[i].input_data)], rs, 1, EmptyDict)

GroupByCombination(rs) ==
    GroupItems([i \in DOMAIN rs |-> StrDict(rs[i].combination)], rs, 1, EmptyDict)

\* variant: every group is scored on the whole result list
GroupResultCallsWholeList(rs) ==
    LET grouped == GroupByInputData(rs)
    IN  [g \in DOMAIN grouped |->
            [args |-> rs, returned |-> EvaluateGroupResult(rs)]]

\* the calls of evaluate_group_result made by the loop over the groups
GroupResultCalls(rs) ==
    LET grouped == GroupByInputData(rs)
    IN  [g \in DOMAIN grouped |->
            [args |-> grouped[g][2],
             returned |-> EvaluateGroupResult(grouped[g][2])]]

GroupedExperimentResults(rs) ==
    LET grouped == GroupByInputData(rs)
        scored == GroupResultCalls(rs)
    IN  [g \in DOMAIN grouped |->
            [group_key |-> grouped[g][1],
             experiment_results |-> grouped[g][2],
             evaluator_outputs |-> scored[g].returned]]

CombinationAggregatedMetrics(rs) ==
    LET combo_metrics == GroupByCombination(rs)
    IN  [c \in DOMAIN combo_metrics |->
            [combo_key |-> combo_metrics[c][1],
             experiment_results |-> combo_metrics[c][2],
             aggregated_metrics |-> CalculateMetrics(combo_metrics[c][2]),
             average_token_usage |-> CalculateAverageToken(combo_metrics[c][2]),
             average_latency |-> CalculateAverageLatency(combo_metrics[c][2])]]

Experiment(rs) ==
    [group_experiment_results |-> GroupedExperimentResults(rs),
     combination_aggregated_metrics |-> CombinationAggregatedMetrics(rs)]

GenerateExperiment ==
    /\ pc = "done"
    /\ pc' = "assembled"
    /\ experiment' = Experiment(results)
    /\ groupCalls' = GroupResultCalls(results)
    /\ UNCHANGED <<d, all_combinations, ci, ii, state, results, calls, individualCalls>>
    /\ UNCHANGED <<registryVars, aggregateVars>>

(***************************************************************************)
(* Direct calls of the aggregator on one bucket                            *)
(***************************************************************************)
CallCalculateMetrics ==
    /\ pc = "bucket"
    /\ pc' = "metrics"
    /\ metrics' = CalculateMetrics(results)
    /\ UNCHANGED <<avgToken, avgLatency>>
    /\ UNCHANGED <<d, all_combinations, ci, ii, state, results, calls, individualCalls>>
    /\ UNCHANGED <<registryVars, assembleVars>>

CallCalculateAverageToken ==
    /\ pc = "metrics"
    /\ pc' = "token"
    /\ avgToken' = CalculateAverageToken(results)
    /\ UNCHANGED <<metrics, avgLatency>>
    /\ UNCHANGED <<d, all_combinations, ci, ii, state, results, calls, individualCalls>>
    /\ UNCHANGED <<registryVars, assembleVars>>

CallCalculateAverageLatency ==
    /\ pc = "token"
    /\ pc' = "aggregated"
    /\ avgLatency' = CalculateAverageLatency(results)
    /\ UNCHANGED <<metrics, avgToken>>
    /\ UNCHANGED <<d, all_combinations, ci, ii, state, results, calls, individualCalls>>
    /\ UNCHANGED <<registryVars, assembleVars>>

(***************************************************************************)
(* Initial states and specifications                                       *)
(***************************************************************************)
IdleRegistry ==
    /\ readers = EmptyDict
    /\ evaluators = EmptyDict
    /\ wrappers = EmptyDict
    /\ lastCall = NoCall
    /\ ncalls = 0

IdleRun ==
    /\ d = InputX
    /\ all_combinations = <<>>
    /\ ci = 0
    /\ ii = 0
    /\ calls = <<>>
    /\ individualCalls = <<>>

IdleAssemble ==
    /\ experiment = Experiment(<<>>)
    /\ groupCalls = <<>>

IdleAggregate ==
    /\ metrics = EmptyDict
    /\ avgToken = Zero
    /\ avgLatency = Zero

\* the list in which every result is its own object
WithIds(rs) == [i \in DOMAIN rs |-> [rs[i] EXCEPT !.id = i]]

InitRegistry ==
    /\ IdleRegistry /\ IdleRun /\ IdleAssemble /\ IdleAggregate
    /\ pc = "idle"
    /\ state = EmptyDict
    /\ results = <<>>

NextRegistry ==
    \/ RegisterReadersStep
    \/ RegisterEvaluatorsStep
    \/ RegisterWrappersStep

SpecRegistry == InitRegistry /\ [][NextRegistry]_vars

InitRun ==
    /\ IdleRegistry /\ IdleRun /\ IdleAssemble /\ IdleAggregate
    /\ pc = "idle"
    /\ state \in {EmptyDict, StaleState}
    /\ results = <<>>

RunSingleInputStep ==
    \E input \in Inputs, combinations \in BoundedSeq(ComboPool, MaxCombos) :
        RunSingleInput(input, combinations)

InvokeAndRecordStep ==
    \E latency \in Latencies, tokens_used \in TokenUsages :
        InvokeAndRecord(latency, tokens_used)

NextRun ==
    \/ RunSingleInputStep
    \/ InvokeAndRecordStep
    \/ InvokeAndRaise
    \/ NextCombination
    \/ ReturnResults
    \/ GenerateExperiment

SpecRun == InitRun /\ [][NextRun]_vars

\* results of any inputs and combinations, as a caller collects them
AssembleResultPool ==
    {ExperimentResult(0, input, combo, "out", 1, tokens, <<>>) :
        input \in Inputs, combo \in {ComboA, ComboB, ComboAB}, tokens \in {1, 2}}

InitAssemble ==
    /\ IdleRegistry /\ IdleRun /\ IdleAssemble /\ IdleAggregate
    /\ pc = "done"
    /\ state = EmptyDict
    /\ \E rs \in BoundedSeq(AssembleResultPool, MaxResults) : results = WithIds(rs)

NextAssemble == GenerateExperiment

SpecAssemble == InitAssemble /\ [][NextAssemble]_vars

AccuracyHit ==
    [name |-> "accuracy", result |-> 1, metric_calculators |-> << ("method" :> AVERAGE) >>]

AccuracyMiss ==
    [name |-> "accuracy", result |-> 0,
     metric_calculators |-> << ("method" :> "MAX"), ("method" :> AVERAGE) >>]

BleuTwice ==
    [name |-> "bleu", result |-> 2,
     metric_calculators |-> << ("method" :> AVERAGE), ("method" :> AVERAGE) >>]

BleuMax ==
    [name |-> "bleu", result |-> 1, metric_calculators |-> << ("method" :> "MAX") >>]

\* the evaluator_outputs lists of the results of a bucket
EvaluatorOutputsPool ==
    { <<>>, <<AccuracyHit>>, <<AccuracyMiss>>, <<BleuTwice>>, <<BleuMax>>,
      <<AccuracyHit, BleuTwice>>, <<BleuMax, AccuracyMiss>>,
      <<AccuracyHit, AccuracyMiss>>, <<BleuTwice, AccuracyHit, BleuMax>> }

\* buckets that differ in their evaluator outputs
ScoredResultPool ==
    {ExperimentResult(0, InputX, ComboA, "out", 1, 1, outputs) :
        outputs \in EvaluatorOutputsPool}

\* buckets that differ in their measurements
MeasuredResultPool ==
    {ExperimentResult(0, InputX, ComboA, "out", latency, tokens, <<>>) :
        latency \in {0} \cup Latencies, tokens \in TokenUsages}

InitAggregate ==
    /\ IdleRegistry /\ IdleRun /\ IdleAssemble /\ IdleAggregate
    /\ pc = "bucket"
    /\ state = EmptyDict
    /\ \E rs \in BoundedSeq(ScoredResultPool, MaxBucket)
                    \cup BoundedSeq(MeasuredResultPool, MaxBucket) :
           results = WithIds(rs)

NextAggregate ==
    \/ CallCalculateMetrics
    \/ CallCalculateAverageToken
    \/ CallCalculateAverageLatency

SpecAggregate == InitAggregate /\ [][NextAggregate]_vars

(***************************************************************************)
(* Properties                                                              *)
(***************************************************************************)
Returned == pc \in {"done", "assembled"}

\* C1: when run_single_input returns, the user function has been invoked
\* once per combination and the i-th result carries the i-th combination.
C1_OncePerCombination ==
    Returned =>
        /\ Len(calls) = Len(all_combinations)
        /\ Len(results) = Len(all_combinations)
        /\ \A i \in DOMAIN results : results[i].combination = all_combinations[i]

\* C2: at every invocation of the user function the experiment state maps
\* every variation point of the current combination to that combination's value.
C2_StateAppliedBeforeInvocation ==
    \A k \in DOMAIN calls :
        LET combo == all_combinations[calls[k].combo]
        IN  \A i \in DOMAIN combo :
                /\ HasKey(calls[k].state, combo[i][1])
                /\ Get(calls[k].state, combo[i][1]) = combo[i][2]

\* the number of places at which result r occurs in the buckets
Occurrences(buckets, r) ==
    Cardinality({<<b, m>> \in (DOMAIN buckets) \X (1..Len(results)) :
                    /\ m \in DOMAIN buckets[b].experiment_results
                    /\ buckets[b].experiment_results[m].id = r.id})

Partition(buckets) ==
    /\ \A i \in DOMAIN results : Occurrences(buckets, results[i]) = 1
    /\ \A b \in DOMAIN buckets : \A m \in DOMAIN buckets[b].experiment_results :
           LET r == buckets[b].experiment_results[m]
           IN  r.id \in DOMAIN results /\ results[r.id] = r

\* C3: after generate_experiment every result is in exactly one group, the
\* one keyed by str(input_data), and in exactly one combination bucket, the
\* one keyed by str(combination); the buckets hold the result list, no more.
C3_Partition ==
    pc = "assembled" =>
        LET groups == experiment.group_experiment_results
            combos == experiment.combination_aggregated_metrics
        IN  /\ Partition(groups)
            /\ Partition(combos)
            /\ \A g \in DOMAIN groups : \A m \in DOMAIN groups[g].experiment_results :
                   groups[g].group_key = StrInputData(groups[g].experiment_results[m].input_data)
            /\ \A c \in DOMAIN combos : \A m \in DOMAIN combos[c].experiment_results :
                   combos[c].combo_key = StrDict(combos[c].experiment_results[m].combination)
            /\ \A g, h \in DOMAIN groups : g # h => groups[g].group_key # groups[h].group_key
            /\ \A c, e \in DOMAIN combos : c # e => combos[c].combo_key # combos[e].combo_key

C3_Witness ==
    /\ pc = "assembled"
    /\ Len(results) = 3
    /\ Len(experiment.group_experiment_results) = 2
    /\ Len(experiment.combination_aggregated_metrics) = 2
    /\ Len(experiment.group_experiment_results[1].experiment_results) = 2

\* the buckets are in the order of the first member and each bucket's
\* members are in the order of the result list (ids are list positions)
StableOrder(buckets) ==
    /\ \A b \in DOMAIN buckets : buckets[b].experiment_results # <<>>
    /\ \A b, e \in DOMAIN buckets :
           b < e => buckets[b].experiment_results[1].id < buckets[e].experiment_results[1].id
    /\ \A b \in DOMAIN buckets : \A m, n \in DOMAIN buckets[b].experiment_results :
           m < n => buckets[b].experiment_results[m].id < buckets[b].experiment_results[n].id

\* C4: both groupings of generate_experiment are stable: buckets in order of
\* first appearance of their key, members in their order in the result list.
C4_StableGrouping ==
    pc = "assembled" =>
        /\ StableOrder(experiment.group_experiment_results)
        /\ StableOrder(experiment.combination_aggregated_metrics)

C4_Witness ==
    /\ pc = "assembled"
    /\ Len(results) = 3
    /\ results[1].input_data = InputX
    /\ results[2].input_data = InputY
    /\ results[3].input_data = InputX
    /\ Len(experiment.group_experiment_results) = 2
    /\ experiment.group_experiment_results[1].group_key = StrInputData(InputX)
    /\ experiment.group_experiment_results[1].experiment_results = <<results[1], results[3]>>
    /\ experiment.group_experiment_results[2].experiment_results = <<results[2]>>

RECURSIVE SumOfSet(_)
SumOfSet(S) ==
    IF S = {} THEN 0
    ELSE LET x == CHOOSE y \in S : TRUE IN x[3] + SumOfSet(S \ {x})

\* the sum of the values of the outputs of that name in the bucket
NamedTotal(name) ==
    LET places == UNION {{<<i, j>> : j \in DOMAIN results[i].evaluator_outputs} :
                            i \in DOMAIN results}
    IN  SumOfSet({<<p[1], p[2], results[p[1]].evaluator_outputs[p[2]].result>> :
                     p \in {q \in places : results[q[1]].evaluator_outputs[q[2]].name = name}})

\* the (output, calculator) places of results[0] that declare AVERAGE for name
AverageDeclarations(name) ==
    LET ref == results[1].evaluator_outputs
        places == UNION {{<<j, k>> : k \in DOMAIN ref[j].metric_calculators} : j \in DOMAIN ref}
    IN  {p \in places : /\ ref[p[1]].name = name
                        /\ ref[p[1]].metric_calculators[p[2]]["method"] = AVERAGE}

EvaluatorNames == {"accuracy", "bleu"}

MetricsComputed == pc \in {"metrics", "token", "aggregated"}

\* C5: for a non-empty bucket calculate_metrics holds, under each evaluator
\* name, one Metric named AVERAGE per AVERAGE calculator declared for that
\* name by results[0], of value (sum of the outputs of that name over the
\* bucket) / len(results), and nothing else; no division fails.
C5_AverageMetrics ==
    (MetricsComputed /\ results # <<>>) =>
        /\ Keys(metrics) \subseteq EvaluatorNames
        /\ \A name \in EvaluatorNames :
               LET ms == IF HasKey(metrics, name) THEN Get(metrics, name) ELSE <<>>
               IN  /\ Len(ms) = Cardinality(AverageDeclarations(name))
                   /\ HasKey(metrics, name) => ms # <<>>
                   /\ \A m \in DOMAIN ms :
                          /\ ms[m].name = "AVERAGE"
                          /\ ms[m].value.den > 0
                          /\ ms[m].value.num * Len(results) = NamedTotal(name) * ms[m].value.den

C5_Witness ==
    /\ MetricsComputed
    /\ Len(results) = 3
    /\ results[2].evaluator_outputs = <<>>
    /\ \E j \in DOMAIN results[3].evaluator_outputs : results[3].evaluator_outputs[j].name = "bleu"
    /\ metrics = << <<"accuracy", << [name |-> "AVERAGE", value |-> [num |-> 2, den |-> 3]] >> >> >>

RECURSIVE FieldTotal(_, _)
FieldTotal(field, i) ==
    IF i = 0 THEN 0 ELSE results[i][field] + FieldTotal(field, i - 1)

IsMean(value, total) ==
    /\ value.den > 0
    /\ value.num * Len(results) = total * value.den

\* C6: calculate_average_token and calculate_average_latency return the mean
\* of their field over a non-empty list and 0 for the empty list, where
\* calculate_metrics returns the empty mapping; no division by zero happens.
C6_Averages ==
    pc = "aggregated" =>
        /\ results = <<>> =>
               /\ avgToken = [num |-> 0, den |-> 1]
               /\ avgLatency = [num |-> 0, den |-> 1]
               /\ metrics = <<>>
        /\ results # <<>> =>
               /\ IsMean(avgToken, FieldTotal("token_usage", Len(results)))
               /\ IsMean(avgLatency, FieldTotal("latency", Len(results)))
        /\ avgToken.den # 0
        /\ avgLatency.den # 0
        /\ \A n \in DOMAIN metrics : \A m \in DOMAIN metrics[n][2] : metrics[n][2][m].value.den # 0

C6_Witness ==
    /\ pc = "aggregated"
    /\ results = <<>>
    /\ avgToken = [num |-> 0, den |-> 1]
    /\ avgLatency = [num |-> 0, den |-> 1]
    /\ metrics = <<>>

Registered == ncalls' = ncalls + 1

\* C7: each of the three registration functions leaves the registries of the
\* other two namespaces as they were.
C7_IndependentNamespaces ==
    [][Registered =>
        /\ lastCall'.op = "readers" => (evaluators' = evaluators /\ wrappers' = wrappers)
        /\ lastCall'.op = "evaluators" => (readers' = readers /\ wrappers' = wrappers)
        /\ lastCall'.op = "wrappers" => (readers' = readers /\ evaluators' = evaluators)]_vars

\* the object a reference denotes, "ResolutionError" when it denotes none
Denotes(path) ==
    CASE path = <<"pkg", "mod", "ClsA">> -> "class ClsA"
      [] path = <<"pkg", "mod", "CfgA">> -> "class CfgA"
      [] path = <<"pkg", "ClsB">> -> "class ClsB"
      [] OTHER -> "ResolutionError"

Unresolvable(details) ==
    \/ Denotes(details["class"]) = "ResolutionError"
    \/ "config_cls" \in DOMAIN details /\ Denotes(details["config_cls"]) = "ResolutionError"

Declared(details) ==
    [cls |-> Denotes(details["class"]),
     config_cls |-> IF "config_cls" \in DOMAIN details
                    THEN Denotes(details["config_cls"]) ELSE "None"]

\* what a registration call of readers or evaluators has done to its registry
RegistrationOutcome(before, after, call) ==
    LET custom == call.custom
    IN  /\ call.raised <=> \E i \in DOMAIN custom : Unresolvable(custom[i][2])
        /\ ~call.raised =>
               \A i \in DOMAIN custom : Lookup(after, custom[i][1]) = Declared(custom[i][2])
        /\ call.raised =>
               /\ call.failed \in DOMAIN custom
               /\ Unresolvable(custom[call.failed][2])
               /\ Lookup(after, custom[call.failed][1]) = Lookup(before, custom[call.failed][1])
               /\ \A i \in 1..(call.failed - 1) :
                      Lookup(after, custom[i][1]) = Declared(custom[i][2])
        /\ \A name \in Names \ Keys(custom) : Lookup(after, name) = Lookup(before, name)

ResultsOfInput(key) ==
    LET OfInput(r) == StrInputData(r.input_data) = key
    IN  SelectSeq(results, OfInput)

\* C9: generate_experiment calls evaluate_group_result once per distinct
\* input, with all the results of that input and no other, and stores what the
\* call returns as that group's evaluator_outputs; no result, no call.
C9_GroupScoredOnce ==
    pc = "assembled" =>
        LET groups == experiment.group_experiment_results
        IN  /\ Len(groupCalls) = Cardinality({StrInputData(results[i].input_data) : i \in DOMAIN results})
            /\ Len(groupCalls) = Len(groups)
            /\ \A g \in DOMAIN groups :
                   /\ groupCalls[g].args = ResultsOfInput(groups[g].group_key)
                   /\ groupCalls[g].args = groups[g].experiment_results
                   /\ groups[g].evaluator_outputs = groupCalls[g].returned
                   /\ groups[g].evaluator_outputs[1].result = Len(ResultsOfInput(groups[g].group_key))
            /\ results = <<>> => groupCalls = <<>>

C9_Witness ==
    /\ pc = "assembled"
    /\ Len(results) = 3
    /\ Len(groupCalls) = 2
    /\ Len(groupCalls[1].args) = 1
    /\ Len(groupCalls[2].args) = 2
    /\ experiment.group_experiment_results[2].evaluator_outputs[1].result = 2

\* the results whose position in the list is in S
BucketOf(S) ==
    LET Kept(r) == r.id \in S
    IN  SelectSeq(results, Kept)

\* C10: run_single_input makes no call of evaluate_individual_result, every
\* result it builds has empty evaluator_outputs, and calculate_metrics of any
\* bucket of the results it returns is the empty mapping.
C10_NeverScoredIndividually ==
    /\ individualCalls = <<>>
    /\ \A i \in DOMAIN results : results[i].evaluator_outputs = <<>>
    /\ Returned => \A S \in SUBSET DOMAIN results : CalculateMetrics(BucketOf(S)) = <<>>
    /\ pc = "assembled" =>
           \A c \in DOMAIN experiment.combination_aggregated_metrics :
               experiment.combination_aggregated_metrics[c].aggregated_metrics = <<>>

C10_Witness ==
    /\ pc = "assembled"
    /\ Len(all_combinations) = 2
    /\ Len(results) = 2
    /\ Len(experiment.combination_aggregated_metrics) = 2
    /\ experiment.combination_aggregated_metrics[1].aggregated_metrics = <<>>
    /\ individualCalls = <<>>

====
